---- MODULE Spec2Model ----
(***************************************************************************)
(* The i18n subsystem of the portfolio site: the locale registry, the      *)
(* useLanguage hook (initial locale, switchLanguage, the persisting        *)
(* effect), the translation resolver t of LanguageProvider and the         *)
(* language dropdown.                                                      *)
(*                                                                         *)
(* JavaScript values are tagged records.  A JavaScript string that is      *)
(* split or interpolated (a key path, a catalog text, the browser          *)
(* language) is a sequence of chunks: a chunk is a run of text, a          *)
(* separator ("." or "-") or a placeholder token "{{name}}"; the empty     *)
(* string is <<>>.  Property names and locale codes are TLA+ strings.      *)
(* Catalog texts are written in ASCII (letters with diacritics and the     *)
(* Arabic texts are transliterated).                                       *)
(***************************************************************************)
EXTENDS Integers, Sequences, FiniteSets, TLC

VARIABLES
    currentLanguage,    \* useLanguage: the currentLanguage state
    storage,            \* localStorage entry 'preferred-language' (Null = no entry)
    navigatorLanguage,  \* navigator.language, a chunk sequence
    docLang,            \* document.documentElement.lang (Unset = not written yet)
    docDir,             \* document.documentElement.dir
    effectPending,      \* the useEffect of useLanguage is scheduled and has not run
    isOpen,             \* LanguageSwitcher: the dropdown is open
    slug,               \* BlogPost: the :slug of the route (Unset = page not shown)
    post,               \* BlogPost: the post state, the slug of the post found or Null
    content,            \* BlogPost: the content state
    loading,            \* BlogPost: the loading state
    blogEffectPending,  \* the useEffect of BlogPost is scheduled and has not run
    pending,            \* BlogPost: the loads whose promise chain has not settled
    navigations,        \* slug changes since BlogPost was mounted
    last                \* the last operation, its inputs and its result

localeVars == <<currentLanguage, storage, navigatorLanguage, docLang, docDir,
                effectPending, isOpen>>

blogVars == <<slug, post, content, loading, blogEffectPending, pending, navigations>>

vars == <<localeVars, blogVars, last>>

----------------------------------------------------------------------------
\* Bounds

\* longest run of probe segments appended to a catalog path
MaxProbe == 2

\* most slug changes while BlogPost stays mounted
MaxNav == 2

----------------------------------------------------------------------------
\* JavaScript values

Null == "<null>"
Unset == "<unset>"

Undefined == [t |-> "undefined"]
Str(s) == [t |-> "string", s |-> s]
Num(n) == [t |-> "number", n |-> n]
Fn(name) == [t |-> "function", name |-> name]
Obj(f) == [t |-> "object", f |-> f]
TypeError == [t |-> "TypeError"]

\* a text of one chunk
Text(s) == Str(<<s>>)

NoProps == [k \in {} |-> Undefined]

RECURSIVE JSLength(_)
JSLength(s) == IF s = <<>> THEN 0 ELSE Len(Head(s)) + JSLength(Tail(s))

\* what an if, ! or || makes of a value
Truthy(v) ==
    CASE v.t = "undefined" -> FALSE
      [] v.t = "string" -> v.s # <<>>
      [] v.t = "number" -> v.n # 0
      [] OTHER -> TRUE

\* properties every object inherits from Object.prototype (those the model probes)
ObjectPrototype(k) ==
    CASE k = "constructor" -> Fn("Object")
      [] k = "toString" -> Fn("toString")
      [] OTHER -> Undefined

\* v?.[k]
Get(v, k) ==
    CASE v.t = "undefined" -> Undefined
      [] v.t = "object" ->
            IF k \in DOMAIN v.f THEN v.f[k] ELSE ObjectPrototype(k)
      [] v.t = "string" ->
            IF k = "length" THEN Num(JSLength(v.s))
            ELSE IF k = "constructor" THEN Fn("String")
            ELSE IF k = "toString" THEN Fn("toString")
            ELSE Undefined
      [] v.t = "function" ->
            IF k = "name" THEN Text(v.name)
            ELSE IF k = "length" THEN Num(IF v.name = "toString" THEN 0 ELSE 1)
            ELSE IF k = "constructor" THEN Fn("Function")
            ELSE IF k = "toString" THEN Fn("toString")
            ELSE Undefined
      [] v.t = "number" ->
            IF k = "constructor" THEN Fn("Number")
            ELSE IF k = "toString" THEN Fn("toString")
            ELSE Undefined
      [] OTHER -> Undefined

\* String(v), as String.prototype.replace applies it to what its callback returns
ToJSString(v) ==
    CASE v.t = "string" -> v.s
      [] v.t = "number" -> <<ToString(v.n)>>
      [] v.t = "function" -> <<"function " \o v.name \o "() { [native code] }">>
      [] v.t = "object" -> <<"[object Object]">>
      [] OTHER -> <<v.t>>

\* s.split(sep): the segments of a chunk sequence, "" for an empty segment
RECURSIVE SplitFrom(_, _, _)
SplitFrom(s, sep, cur) ==
    IF s = <<>> THEN <<cur>>
    ELSE IF Head(s) = sep THEN <<cur>> \o SplitFrom(Tail(s), sep, "")
    ELSE SplitFrom(Tail(s), sep, cur \o Head(s))

Split(s, sep) == SplitFrom(s, sep, "")

\* segs.join(sep), as a chunk sequence
RECURSIVE Join(_, _)
Join(segs, sep) ==
    LET head == IF Head(segs) = "" THEN <<>> ELSE <<Head(segs)>>
    IN  IF Len(segs) = 1 THEN head
        ELSE head \o <<sep>> \o Join(Tail(segs), sep)

----------------------------------------------------------------------------
\* Locale registry

SUPPORTED_LANGUAGES ==
    Obj([en |-> Obj([code |-> Text("en"), name |-> Text("English")]),
         tr |-> Obj([code |-> Text("tr"), name |-> Text("Turkce")]),
         ar |-> Obj([code |-> Text("ar"), name |-> Text("al-Arabiya")]),
         it |-> Obj([code |-> Text("it"), name |-> Text("Italiano")])])

DEFAULT_LANGUAGE == "en"

\* the registry's own keys
LocaleCodes == DOMAIN SUPPORTED_LANGUAGES.f

\* the test SUPPORTED_LANGUAGES[code] of switchLanguage and of the initializer
IsSupported(code) == Truthy(Get(SUPPORTED_LANGUAGES, code))

----------------------------------------------------------------------------
\* Translation catalogs (the entries the model keeps of each locale)

translations ==
    Obj([en |-> Obj([
            nav |-> Obj([home |-> Text("Home"), blog |-> Text("Blog")]),
            home |-> Obj([services |-> Obj([
                title |-> Text("Professional Services"),
                security |-> Obj([title |-> Text("Security & Compliance")])])]),
            footer |-> Obj([copyright |->
                Str(<<"(c) ", "{{year}}", " Serhat Soysal. All rights reserved.">>)])]),
         tr |-> Obj([
            nav |-> Obj([home |-> Text("Ana Sayfa"), blog |-> Text("Blog")]),
            home |-> Obj([services |-> Obj([
                title |-> Text("Profesyonel Hizmetler"),
                security |-> Obj([title |-> Text("Guvenlik & Compliance")])])]),
            footer |-> Obj([copyright |->
                Str(<<"(c) ", "{{year}}", " Serhat Soysal. Tum haklari saklidir.">>)])]),
         ar |-> Obj([
            nav |-> Obj([home |-> Text("al-Raisiya"), blog |-> Text("al-Mudawwana")]),
            home |-> Obj([services |-> Obj([
                title |-> Text("al-Khadamat al-Mihaniya"),
                security |-> Obj([title |-> Text("al-Aman wal-Imtithal")])])]),
            footer |-> Obj([copyright |->
                Str(<<"(c) ", "{{year}}", " Sarhat Suysal. Jami al-huquq mahfuza.">>)])]),
         it |-> Obj([
            nav |-> Obj([home |-> Text("Home"), blog |-> Text("Blog")]),
            home |-> Obj([services |-> Obj([
                title |-> Text("Cosa Faccio")])]),
            footer |-> Obj([copyright |->
                Str(<<"(c) ", "{{year}}", " Serhat Soysal. Tutti i diritti riservati.">>)])])])

\* the paths of the leaves of translations.en; every leaf is a non-empty string
EnglishLeafPaths ==
    {<<"about", "approach", "content">>, <<"about", "approach", "title">>,
     <<"about", "background", "content">>, <<"about", "background", "title">>,
     <<"about", "intro">>, <<"about", "skills", "backend">>,
     <<"about", "skills", "cloud">>, <<"about", "skills", "database">>,
     <<"about", "skills", "frontend">>, <<"about", "skills", "title">>,
     <<"about", "subtitle">>, <<"about", "title">>, <<"blog", "backToBlog">>,
     <<"blog", "noArticles">>, <<"blog", "publishedOn">>, <<"blog", "readMore">>,
     <<"blog", "readTime">>, <<"blog", "searchPlaceholder">>, <<"blog", "subtitle">>,
     <<"blog", "tags">>, <<"blog", "title">>, <<"common", "backHome">>,
     <<"common", "close">>, <<"common", "darkMode">>, <<"common", "error">>,
     <<"common", "learnMore">>, <<"common", "lightMode">>, <<"common", "loading">>,
     <<"common", "notFound">>, <<"common", "open">>, <<"common", "toggleTheme">>,
     <<"common", "viewAll">>, <<"contact", "form", "email">>,
     <<"contact", "form", "message">>, <<"contact", "form", "name">>,
     <<"contact", "form", "placeholder", "email">>,
     <<"contact", "form", "placeholder", "message">>,
     <<"contact", "form", "placeholder", "name">>,
     <<"contact", "form", "placeholder", "subject">>, <<"contact", "form", "send">>,
     <<"contact", "form", "sending">>, <<"contact", "form", "subject">>,
     <<"contact", "info", "connect">>, <<"contact", "info", "email">>,
     <<"contact", "info", "response">>, <<"contact", "info", "social">>,
     <<"contact", "info", "title">>, <<"contact", "subtitle">>, <<"contact", "title">>,
     <<"footer", "builtWith">>, <<"footer", "contact">>, <<"footer", "copyright">>,
     <<"footer", "description">>, <<"footer", "quickLinks">>,
     <<"home", "hero", "cta", "getInTouch">>, <<"home", "hero", "cta", "viewWork">>,
     <<"home", "hero", "description">>, <<"home", "hero", "greeting">>,
     <<"home", "hero", "name">>, <<"home", "hero", "subtitle">>,
     <<"home", "hero", "title">>, <<"home", "services", "apiDesign", "description">>,
     <<"home", "services", "apiDesign", "title">>,
     <<"home", "services", "cloudNative", "description">>,
     <<"home", "services", "cloudNative", "title">>,
     <<"home", "services", "consulting", "description">>,
     <<"home", "services", "consulting", "title">>,
     <<"home", "services", "database", "description">>,
     <<"home", "services", "database", "title">>,
     <<"home", "services", "devops", "description">>,
     <<"home", "services", "devops", "title">>,
     <<"home", "services", "fullStack", "description">>,
     <<"home", "services", "fullStack", "title">>,
     <<"home", "services", "performance", "description">>,
     <<"home", "services", "performance", "title">>,
     <<"home", "services", "security", "description">>,
     <<"home", "services", "security", "title">>, <<"home", "services", "subtitle">>,
     <<"home", "services", "systemDesign", "description">>,
     <<"home", "services", "systemDesign", "title">>, <<"home", "services", "title">>,
     <<"home", "stats", "clients">>, <<"home", "stats", "experience">>,
     <<"home", "stats", "projects">>, <<"home", "stats", "technologies">>,
     <<"nav", "about">>, <<"nav", "blog">>, <<"nav", "contact">>, <<"nav", "home">>,
     <<"nav", "projects">>, <<"projects", "allProjects">>, <<"projects", "comingSoon">>,
     <<"projects", "featured">>, <<"projects", "subtitle">>,
     <<"projects", "techStack">>, <<"projects", "title">>, <<"projects", "viewCode">>,
     <<"projects", "viewDemo">>}

----------------------------------------------------------------------------
\* Translation resolver

\* the two for-of loops of t: descend from v along keys
RECURSIVE Walk(_, _)
Walk(v, keys) ==
    IF keys = <<>> THEN v ELSE Walk(Get(v, Head(keys)), Tail(keys))

\* the names the pattern \w+ matches inside {{ }}
WordNames == {"year", "name", "constructor"}

Placeholder(name) == "{{" \o name \o "}}"

\* the callback of replace: (match, param) => params[param] || match
Replacer(params, param, match) ==
    IF Truthy(Get(params, param)) THEN ToJSString(Get(params, param)) ELSE <<match>>

\* translation.replace(/\{\{(\w+)\}\}/g, callback)
RECURSIVE Replace(_, _)
Replace(s, params) ==
    IF s = <<>> THEN <<>>
    ELSE LET c == Head(s)
             names == {n \in WordNames : c = Placeholder(n)}
         IN  (IF names = {} THEN <<c>>
              ELSE Replacer(params, CHOOSE n \in names : TRUE, c))
             \o Replace(Tail(s), params)

\* Object.keys(params).length > 0
HasParams(params) == DOMAIN params.f # {}

\* lines 23-37 of t: the value found in the active catalog, else in the English one
Resolve(language, key) ==
    LET keys == Split(key, ".")
        own == Walk(Get(translations, language), keys)
    IN  IF ~Truthy(own) THEN Walk(Get(translations, "en"), keys) ELSE own

\* t looking only at the English catalog
t_EnglishOnly(language, key, params) ==
    LET translation == Walk(Get(translations, "en"), Split(key, "."))
    IN  IF ~Truthy(translation) THEN Str(key)
        ELSE IF translation.t = "string" /\ HasParams(params)
             THEN Str(Replace(translation.s, params))
        ELSE translation

\* t without the English fallback
t_NoFallback(language, key, params) ==
    LET translation == Walk(Get(translations, language), Split(key, "."))
    IN  IF ~Truthy(translation) THEN Str(key)
        ELSE IF translation.t = "string" /\ HasParams(params)
             THEN Str(Replace(translation.s, params))
        ELSE translation

\* a text with its placeholder tokens removed
RECURSIVE StripTokens(_)
StripTokens(s) ==
    IF s = <<>> THEN <<>>
    ELSE (IF \E n \in WordNames : Head(s) = Placeholder(n) THEN <<>> ELSE <<Head(s)>>)
         \o StripTokens(Tail(s))

\* t interpolating whatever params holds, a value that is missing rendered as nothing
t_AlwaysInterpolate(language, key, params) ==
    LET translation == Resolve(language, key)
    IN  IF ~Truthy(translation) THEN Str(key)
        ELSE IF translation.t = "string"
             THEN Str(IF HasParams(params) THEN Replace(translation.s, params)
                      ELSE StripTokens(translation.s))
        ELSE translation

\* t calling replace without the typeof test
t_NoTypeTest(language, key, params) ==
    LET translation == Resolve(language, key)
    IN  IF ~Truthy(translation) THEN Str(key)
        ELSE IF HasParams(params)
             THEN (IF translation.t = "string"
                   THEN Str(Replace(translation.s, params)) ELSE TypeError)
        ELSE translation

\* t(key, params) of LanguageProvider, under the active language
t(language, key, params) ==
    LET translation == Resolve(language, key)
    IN  IF ~Truthy(translation) THEN Str(key)
        ELSE IF translation.t = "string" /\ HasParams(params)
             THEN Str(Replace(translation.s, params))
        ELSE translation

----------------------------------------------------------------------------
\* Locale state manager

\* the initializer asking the browser before the storage
InitialLanguageBrowserFirst(saved, browser) ==
    LET browserLanguage == Split(browser, "-")[1]
    IN  IF IsSupported(browserLanguage) THEN browserLanguage
        ELSE IF saved # Null /\ saved # "" /\ IsSupported(saved) THEN saved
        ELSE DEFAULT_LANGUAGE

\* the useState initializer of useLanguage
InitialLanguage(saved, browser) ==
    IF saved # Null /\ saved # "" /\ IsSupported(saved) THEN saved
    ELSE LET browserLanguage == Split(browser, "-")[1]
         IN  IF IsSupported(browserLanguage) THEN browserLanguage
             ELSE DEFAULT_LANGUAGE

\* switchLanguage with its test negated
SwitchTargetNegated(current, languageCode) ==
    IF ~IsSupported(languageCode) THEN languageCode ELSE current

\* the state switchLanguage(languageCode) leaves behind
SwitchTarget(current, languageCode) ==
    IF IsSupported(languageCode) THEN languageCode ELSE current

----------------------------------------------------------------------------
\* Inputs

\* what localStorage may hold when the page loads
SavedValues == {Null, "", "tr", "ar", "xx", "constructor"}

\* what the browser may report as navigator.language
BrowserLanguages ==
    {<<"en", "-", "US">>, <<"tr", "-", "TR">>, <<"de", "-", "DE">>, <<"ar">>}

\* arguments of switchLanguage: the registered codes and other strings
Codes == LocaleCodes \cup {"xx", "", "constructor", "toString"}

\* new Date().getFullYear() in Footer
currentYear == 2024

\* a set of calls in which one key is mistyped
UICallsMistyped ==
    {[key |-> Join(<<"nav", "home">>, "."), params |-> Obj(NoProps)],
     [key |-> Join(<<"nav", "blogs">>, "."), params |-> Obj(NoProps)],
     [key |-> Join(<<"home", "services", "title">>, "."), params |-> Obj(NoProps)],
     [key |-> Join(<<"footer", "copyright">>, "."),
      params |-> Obj([year |-> Num(currentYear)])]}

\* the translate calls of Navigation, Footer and Home
UICalls ==
    {[key |-> Join(<<"nav", "home">>, "."), params |-> Obj(NoProps)],
     [key |-> Join(<<"nav", "blog">>, "."), params |-> Obj(NoProps)],
     [key |-> Join(<<"home", "services", "title">>, "."), params |-> Obj(NoProps)],
     [key |-> Join(<<"footer", "copyright">>, "."),
      params |-> Obj([year |-> Num(currentYear)])]}

\* the key paths Navigation passes to t
NavigationKeys ==
    {<<"nav", "home">>, <<"nav", "about">>, <<"nav", "projects">>, <<"nav", "blog">>,
     <<"nav", "contact">>, <<"common", "toggleTheme">>}

\* the key paths Footer passes to t
FooterKeys ==
    {<<"nav", "home">>, <<"nav", "about">>, <<"nav", "projects">>, <<"nav", "blog">>,
     <<"nav", "contact">>, <<"footer", "description">>, <<"footer", "quickLinks">>,
     <<"footer", "contact">>, <<"contact", "info", "email">>,
     <<"contact", "info", "response">>, <<"footer", "copyright">>,
     <<"footer", "builtWith">>}

\* the key paths NotFound passes to t
NotFoundKeys ==
    {<<"common", "notFound">>, <<"common", "error">>, <<"common", "backHome">>}

\* the key paths Home passes to t
HomeKeys ==
    {<<"home", "hero", "name">>, <<"home", "hero", "title">>,
     <<"home", "hero", "description">>, <<"home", "hero", "greeting">>,
     <<"home", "hero", "subtitle">>, <<"home", "hero", "cta", "viewWork">>,
     <<"nav", "about">>, <<"home", "hero", "cta", "getInTouch">>,
     <<"home", "services", "title">>, <<"home", "services", "subtitle">>,
     <<"home", "services", "fullStack", "title">>,
     <<"home", "services", "fullStack", "description">>,
     <<"home", "services", "cloudNative", "title">>,
     <<"home", "services", "cloudNative", "description">>,
     <<"home", "services", "systemDesign", "title">>,
     <<"home", "services", "systemDesign", "description">>, <<"contact", "title">>,
     <<"contact", "subtitle">>}

UIKeys == NavigationKeys \cup FooterKeys \cup NotFoundKeys \cup HomeKeys

\* the paths of the own entries below v, the root <<>> included
RECURSIVE Paths(_)
Paths(v) ==
    IF v.t # "object" THEN {<<>>}
    ELSE {<<>>} \cup UNION {{<<k>> \o p : p \in Paths(v.f[k])} : k \in DOMAIN v.f}

\* segments that name no catalog entry
ProbeSegs == {"constructor", "length", "missing", ""}

RECURSIVE ProbeSeqs(_)
ProbeSeqs(n) ==
    IF n = 0 THEN {<<>>}
    ELSE ProbeSeqs(n - 1) \cup
         {Append(q, g) : q \in {r \in ProbeSeqs(n - 1) : Len(r) = n - 1}, g \in ProbeSegs}

\* key paths given to t: every English catalog path, followed by probe segments
KeySegs ==
    {p \o q : p \in Paths(Get(translations, "en")), q \in ProbeSeqs(MaxProbe)} \ {<<>>}

\* key paths through the function every object inherits as toString
InheritedKeySegs == {<<"toString", "length">>, <<"nav", "toString", "length">>}

KeyPaths == {Join(segs, ".") : segs \in KeySegs \cup InheritedKeySegs}

\* params given to t
ParamSets ==
    {Obj(NoProps),
     Obj([year |-> Text("2024")]),
     Obj([year |-> Num(currentYear)]),
     Obj([year |-> Str(<<>>)]),
     Obj([name |-> Text("5")])}

Call(op, code, language, key, params, result) ==
    [op |-> op, code |-> code, language |-> language, key |-> key,
     params |-> params, result |-> result]

----------------------------------------------------------------------------
\* Operations

\* the blog-post page is not on screen: the useState defaults of BlogPost
BlogNotShown ==
    /\ slug = Unset
    /\ post = Null
    /\ content = ""
    /\ loading = TRUE
    /\ blogEffectPending = FALSE
    /\ pending = {}
    /\ navigations = 0

\* the first render: the useState initializer has run, the effect has not
Init ==
    /\ BlogNotShown
    /\ storage \in SavedValues
    /\ navigatorLanguage \in BrowserLanguages
    /\ currentLanguage = InitialLanguage(storage, navigatorLanguage)
    /\ docLang = Unset
    /\ docDir = Unset
    /\ effectPending = TRUE
    /\ isOpen = FALSE
    /\ last = Call("init", storage, "", <<>>, Obj(NoProps), Undefined)

\* the page is loaded again: a new document, the initializer reads the storage as it is
Reload(browser) ==
    /\ navigatorLanguage' = browser
    /\ currentLanguage' = InitialLanguage(storage, browser)
    /\ docLang' = Unset
    /\ docDir' = Unset
    /\ effectPending' = TRUE
    /\ isOpen' = FALSE
    /\ last' = Call("init", storage, currentLanguage, <<>>, Obj(NoProps), Undefined)
    /\ UNCHANGED <<blogVars, storage>>

\* the effect without its localStorage.setItem
RunEffectNoPersist ==
    /\ effectPending
    /\ docLang' = currentLanguage
    /\ docDir' = IF currentLanguage = "ar" THEN "rtl" ELSE "ltr"
    /\ effectPending' = FALSE
    /\ last' = Call("effect", docLang, currentLanguage, <<>>, Obj(NoProps), Undefined)
    /\ UNCHANGED <<blogVars, currentLanguage, storage, navigatorLanguage, isOpen>>

\* the effect without its assignment to document.documentElement.lang
RunEffectNoLang ==
    /\ effectPending
    /\ storage' = currentLanguage
    /\ docDir' = IF currentLanguage = "ar" THEN "rtl" ELSE "ltr"
    /\ effectPending' = FALSE
    /\ last' = Call("effect", docLang, currentLanguage, <<>>, Obj(NoProps), Undefined)
    /\ UNCHANGED <<blogVars, currentLanguage, docLang, navigatorLanguage, isOpen>>

\* the effect without the else branch that sets dir to 'ltr'
RunEffectNoLtr ==
    /\ effectPending
    /\ storage' = currentLanguage
    /\ docLang' = currentLanguage
    /\ docDir' = IF currentLanguage = "ar" THEN "rtl" ELSE docDir
    /\ effectPending' = FALSE
    /\ last' = Call("effect", docLang, currentLanguage, <<>>, Obj(NoProps), Undefined)
    /\ UNCHANGED <<blogVars, currentLanguage, navigatorLanguage, isOpen>>

\* the effect also resetting a code that is no key of the registry
RunEffectNormalises ==
    /\ effectPending
    /\ storage' = currentLanguage
    /\ docLang' = currentLanguage
    /\ docDir' = IF currentLanguage = "ar" THEN "rtl" ELSE "ltr"
    /\ effectPending' = FALSE
    /\ currentLanguage' = IF currentLanguage \in LocaleCodes THEN currentLanguage
                          ELSE DEFAULT_LANGUAGE
    /\ last' = Call("effect", docLang, currentLanguage, <<>>, Obj(NoProps), Undefined)
    /\ UNCHANGED <<blogVars, navigatorLanguage, isOpen>>

\* the useEffect of useLanguage, run after a render in which currentLanguage changed
RunEffect ==
    /\ effectPending
    /\ storage' = currentLanguage
    /\ docLang' = currentLanguage
    /\ docDir' = IF currentLanguage = "ar" THEN "rtl" ELSE "ltr"
    /\ effectPending' = FALSE
    /\ last' = Call("effect", docLang, currentLanguage, <<>>, Obj(NoProps), Undefined)
    /\ UNCHANGED <<blogVars, currentLanguage, navigatorLanguage, isOpen>>

\* switchLanguage with an effect that runs after every render (no dependency list)
SwitchLanguageAlwaysEffect(languageCode) ==
    /\ ~effectPending
    /\ currentLanguage' = SwitchTarget(currentLanguage, languageCode)
    /\ effectPending' = TRUE
    /\ last' = Call("switchLanguage", languageCode, currentLanguage, <<>>,
                    Obj(NoProps), Undefined)
    /\ UNCHANGED <<blogVars, storage, navigatorLanguage, docLang, docDir, isOpen>>

\* switchLanguage taking the stored code when the storage holds a registered one
SwitchLanguageReadsStorage(languageCode) ==
    /\ ~effectPending
    /\ currentLanguage' = IF storage # Null /\ storage # "" /\ IsSupported(storage)
                          THEN storage
                          ELSE SwitchTarget(currentLanguage, languageCode)
    /\ effectPending' = (currentLanguage' # currentLanguage)
    /\ last' = Call("switchLanguage", languageCode, currentLanguage, <<>>,
                    Obj(NoProps), Undefined)
    /\ UNCHANGED <<blogVars, storage, navigatorLanguage, docLang, docDir, isOpen>>

\* switchLanguage(languageCode) and the render that follows it
SwitchLanguage(languageCode) ==
    /\ ~effectPending
    /\ currentLanguage' = SwitchTarget(currentLanguage, languageCode)
    /\ effectPending' = (currentLanguage' # currentLanguage)
    /\ last' = Call("switchLanguage", languageCode, currentLanguage, <<>>,
                    Obj(NoProps), Undefined)
    /\ UNCHANGED <<blogVars, storage, navigatorLanguage, docLang, docDir, isOpen>>

\* Object.values(supportedLanguages)
languages == {SUPPORTED_LANGUAGES.f[k] : k \in DOMAIN SUPPORTED_LANGUAGES.f}

\* handleLanguageChange without its setIsOpen(false)
HandleLanguageChangeStaysOpen(language) ==
    LET languageCode == Get(language, "code").s[1]
    IN  /\ isOpen
        /\ ~effectPending
        /\ currentLanguage' = SwitchTarget(currentLanguage, languageCode)
        /\ effectPending' = (currentLanguage' # currentLanguage)
        /\ last' = Call("handleLanguageChange", languageCode, currentLanguage, <<>>,
                        Obj(NoProps), Undefined)
        /\ UNCHANGED <<blogVars, storage, navigatorLanguage, docLang, docDir, isOpen>>

\* LanguageSwitcher: a click on the entry of language in the open dropdown
HandleLanguageChange(language) ==
    LET languageCode == Get(language, "code").s[1]
    IN  /\ isOpen
        /\ ~effectPending
        /\ currentLanguage' = SwitchTarget(currentLanguage, languageCode)
        /\ effectPending' = (currentLanguage' # currentLanguage)
        /\ isOpen' = FALSE
        /\ last' = Call("handleLanguageChange", languageCode, currentLanguage, <<>>,
                        Obj(NoProps), Undefined)
        /\ UNCHANGED <<blogVars, storage, navigatorLanguage, docLang, docDir>>

\* LanguageSwitcher: a click on the globe button
ToggleDropdown ==
    /\ ~effectPending
    /\ isOpen' = ~isOpen
    /\ last' = Call("toggleDropdown", "", currentLanguage, <<>>, Obj(NoProps), Undefined)
    /\ UNCHANGED <<blogVars, currentLanguage, storage, navigatorLanguage, docLang,
                   docDir, effectPending>>

\* LanguageSwitcher: a click on the backdrop of the open dropdown
CloseDropdown ==
    /\ isOpen
    /\ ~effectPending
    /\ isOpen' = FALSE
    /\ last' = Call("closeDropdown", "", currentLanguage, <<>>, Obj(NoProps), Undefined)
    /\ UNCHANGED <<blogVars, currentLanguage, storage, navigatorLanguage, docLang,
                   docDir, effectPending>>

\* t making English the active language when it had to fall back
TranslateFallbackSwitches(key, params) ==
    /\ last' = Call("t", "", currentLanguage, key, params,
                    t(currentLanguage, key, params))
    /\ currentLanguage' =
          IF ~Truthy(Walk(Get(translations, currentLanguage), Split(key, ".")))
          THEN "en" ELSE currentLanguage
    /\ UNCHANGED <<blogVars, storage, navigatorLanguage, docLang, docDir,
                   effectPending, isOpen>>

\* a consumer calls t(key, params) while rendering
Translate(key, params) ==
    /\ last' = Call("t", "", currentLanguage, key, params,
                    t(currentLanguage, key, params))
    /\ UNCHANGED <<blogVars, currentLanguage, storage, navigatorLanguage, docLang,
                   docDir, effectPending, isOpen>>

\* the value LanguageProvider gives to LanguageContext.Provider
value(language) ==
    Obj([currentLanguage |-> Text(language),
         switchLanguage |-> Fn("switchLanguage"),
         supportedLanguages |-> SUPPORTED_LANGUAGES,
         currentLanguageInfo |-> Get(SUPPORTED_LANGUAGES, language),
         t |-> Fn("t")])

\* useContext(LanguageContext): the provider's value below a LanguageProvider, the
\* default of createContext() elsewhere
useContext(inside, language) == IF inside THEN value(language) ELSE Undefined

ConfigError == [t |-> "Error"]

\* useTranslation returning the context without testing it
useTranslationUnchecked(context) == context

\* useTranslation, given what useContext returned
useTranslation(context) == IF ~Truthy(context) THEN ConfigError ELSE context

\* a component calls useTranslation(), inside or outside a LanguageProvider
UseTranslation(inside) ==
    /\ last' = Call("useTranslation", IF inside THEN "inside" ELSE "outside",
                    currentLanguage, <<>>, Obj(NoProps),
                    useTranslation(useContext(inside, currentLanguage)))
    /\ UNCHANGED <<blogVars, currentLanguage, storage, navigatorLanguage, docLang,
                   docDir, effectPending, isOpen>>

Next ==
    \/ RunEffect
    \/ \E languageCode \in Codes : SwitchLanguage(languageCode)
    \/ \E language \in languages : HandleLanguageChange(language)
    \/ ToggleDropdown
    \/ CloseDropdown
    \/ \E browser \in BrowserLanguages : Reload(browser)
    \/ \E c \in UICalls : Translate(c.key, c.params)
    \/ \E inside \in BOOLEAN : UseTranslation(inside)

Spec == Init /\ [][Next]_vars

\* The resolver on its own: a fresh start, switchLanguage with any argument, and
\* one recorded call of t between two steps of the locale state manager.
InitT ==
    /\ Init
    /\ storage = Null
    /\ navigatorLanguage = <<"en", "-", "US">>

NextT ==
    \/ RunEffect
    \/ \E languageCode \in Codes : SwitchLanguage(languageCode)
    \/ \E key \in KeyPaths, params \in ParamSets :
          last.op # "t" /\ Translate(key, params)

SpecT == InitT /\ [][NextT]_vars

----------------------------------------------------------------------------
\* The locale state manager in its environment

\* navigator.language when the browser reports none (undefined)
NoBrowserLanguage == <<Unset>>

\* the initializer reaches navigator.language.split('-') with navigator.language
\* undefined: the read of split on undefined raises a TypeError
InitializerRaises(saved, browser) ==
    /\ ~(saved # Null /\ saved # "" /\ IsSupported(saved))
    /\ browser = NoBrowserLanguage

\* the first render, navigator.language present or not; an initializer that raises
\* leaves no component (currentLanguage = Unset, nothing scheduled)
InitE ==
    /\ BlogNotShown
    /\ storage \in SavedValues
    /\ navigatorLanguage \in BrowserLanguages \cup {NoBrowserLanguage}
    /\ currentLanguage = IF InitializerRaises(storage, navigatorLanguage) THEN Unset
                         ELSE InitialLanguage(storage, navigatorLanguage)
    /\ docLang = Unset
    /\ docDir = Unset
    /\ effectPending = ~InitializerRaises(storage, navigatorLanguage)
    /\ isOpen = FALSE
    /\ last = Call("init", storage, "", <<>>, Obj(NoProps),
                   IF InitializerRaises(storage, navigatorLanguage) THEN TypeError
                   ELSE Undefined)

\* the hook is mounted: its initializer returned
Mounted == currentLanguage # Unset

\* the environment (another tab, the user) sets or removes the 'preferred-language'
\* entry; the hook registers no listener for it
StorageChange(saved) ==
    /\ saved # storage
    /\ storage' = saved
    /\ last' = Call("storageChange", saved, currentLanguage, <<>>, Obj(NoProps),
                    Undefined)
    /\ UNCHANGED <<blogVars, currentLanguage, navigatorLanguage, docLang, docDir,
                   effectPending, isOpen>>

NextE ==
    \/ RunEffect
    \/ \E languageCode \in Codes : Mounted /\ SwitchLanguage(languageCode)
    \/ \E c \in UICalls : Mounted /\ Translate(c.key, c.params)
    \/ \E saved \in SavedValues : StorageChange(saved)
    \/ \E browser \in BrowserLanguages : Reload(browser)

SpecE == InitE /\ [][NextE]_vars

----------------------------------------------------------------------------
\* Blog-post page

\* the slugs of the blogPosts catalog
blogPosts ==
    {"scalable-microservices-spring-boot", "modern-frontend-react-typescript",
     "kubernetes-container-orchestration", "ai-integration-modern-apps",
     "database-design-patterns"}

\* what useParams may give as slug: two posts of the catalog and a slug of none
Slugs == {"scalable-microservices-spring-boot", "database-design-patterns", "no-such-post"}

\* the text both catch handlers give to setContent
NotFoundContent == "# Blog post content not found\n\nThis blog post is coming soon!"

\* the text response.text() resolves with for the markdown file of a slug
FetchedText(s) == "markdown of " \o s

\* a promise was rejected
Rejection == [t |-> "rejected"]

\* a load in flight: the slug the effect closed over, the promise that is pending
\* ("import", "fetch" or "text") and the render that started it
Load(s, stage, n) == [slug |-> s, stage |-> stage, n |-> n]

\* BlogPost is mounted on a slug: the useState defaults, the effect scheduled
InitB ==
    /\ storage = Null
    /\ navigatorLanguage = <<"en", "-", "US">>
    /\ currentLanguage = InitialLanguage(storage, navigatorLanguage)
    /\ docLang = Unset
    /\ docDir = Unset
    /\ effectPending = TRUE
    /\ isOpen = FALSE
    /\ slug \in Slugs
    /\ post = Null
    /\ content = ""
    /\ loading = TRUE
    /\ blogEffectPending = TRUE
    /\ pending = {}
    /\ navigations = 0
    /\ last = Call("mount", slug, "", <<>>, Obj(NoProps), Undefined)

\* the useEffect of BlogPost, run after a render in which slug changed
BlogEffect ==
    /\ blogEffectPending
    /\ blogEffectPending' = FALSE
    /\ IF slug \in blogPosts
       THEN /\ post' = slug
            /\ pending' = pending \cup {Load(slug, "import", navigations)}
            /\ UNCHANGED <<content, loading>>
       ELSE /\ loading' = FALSE
            /\ UNCHANGED <<post, content, pending>>
    /\ last' = Call("blogEffect", slug, "", <<>>, Obj(NoProps), Undefined)
    /\ UNCHANGED <<localeVars, slug, navigations>>

\* the import() promise without a catch handler
ImportSettlesNoCatch(load, fulfilled) ==
    /\ load \in pending
    /\ load.stage = "import"
    /\ pending' = IF fulfilled
                  THEN (pending \ {load}) \cup {Load(load.slug, "fetch", load.n)}
                  ELSE pending \ {load}
    /\ last' = Call("import", load.slug, "", <<>>, Obj(NoProps),
                    IF fulfilled THEN Undefined ELSE Rejection)
    /\ UNCHANGED <<localeVars, slug, post, content, loading, blogEffectPending,
                   navigations>>

\* the import() promise settles: then starts the fetch, the outer catch gives the
\* placeholder
ImportSettles(load, fulfilled) ==
    /\ load \in pending
    /\ load.stage = "import"
    /\ IF fulfilled
       THEN /\ pending' = (pending \ {load}) \cup {Load(load.slug, "fetch", load.n)}
            /\ UNCHANGED <<content, loading>>
       ELSE /\ pending' = pending \ {load}
            /\ content' = NotFoundContent
            /\ loading' = FALSE
    /\ last' = Call("import", load.slug, "", <<>>, Obj(NoProps),
                    IF fulfilled THEN Undefined ELSE Rejection)
    /\ UNCHANGED <<localeVars, slug, post, blogEffectPending, navigations>>

\* the fetch() promise settles: then asks for the text, the inner catch gives the
\* placeholder
FetchSettles(load, fulfilled) ==
    /\ load \in pending
    /\ load.stage = "fetch"
    /\ IF fulfilled
       THEN /\ pending' = (pending \ {load}) \cup {Load(load.slug, "text", load.n)}
            /\ UNCHANGED <<content, loading>>
       ELSE /\ pending' = pending \ {load}
            /\ content' = NotFoundContent
            /\ loading' = FALSE
    /\ last' = Call("fetch", load.slug, "", <<>>, Obj(NoProps),
                    IF fulfilled THEN Undefined ELSE Rejection)
    /\ UNCHANGED <<localeVars, slug, post, blogEffectPending, navigations>>

\* the response.text() promise settles: then gives the text to setContent, the inner
\* catch gives the placeholder
TextSettles(load, fulfilled) ==
    /\ load \in pending
    /\ load.stage = "text"
    /\ pending' = pending \ {load}
    /\ content' = IF fulfilled THEN FetchedText(load.slug) ELSE NotFoundContent
    /\ loading' = FALSE
    /\ last' = Call("text", load.slug, "", <<>>, Obj(NoProps),
                    IF fulfilled THEN Undefined ELSE Rejection)
    /\ UNCHANGED <<localeVars, slug, post, blogEffectPending, navigations>>

\* the route changes to another slug; the BlogPost element stays mounted and keeps
\* its state
Navigate(s) ==
    /\ ~blogEffectPending
    /\ navigations < MaxNav
    /\ s # slug
    /\ slug' = s
    /\ blogEffectPending' = TRUE
    /\ navigations' = navigations + 1
    /\ last' = Call("navigate", s, "", <<>>, Obj(NoProps), Undefined)
    /\ UNCHANGED <<localeVars, post, content, loading, pending>>

\* what BlogPost renders
View ==
    IF loading THEN "Loading"
    ELSE IF post = Null THEN "Post Not Found"
    ELSE "Post"

\* a pending promise of some load settles
Settle ==
    \E load \in pending, fulfilled \in BOOLEAN :
        \/ ImportSettles(load, fulfilled)
        \/ FetchSettles(load, fulfilled)
        \/ TextSettles(load, fulfilled)

NextB ==
    \/ BlogEffect
    \/ Settle
    \/ \E s \in Slugs : Navigate(s)

\* React runs a scheduled effect, and every pending promise settles
SpecB == InitB /\ [][NextB]_vars /\ WF_vars(BlogEffect) /\ WF_vars(Settle)

----------------------------------------------------------------------------
\* Properties

\* the entry of a catalog that a key path names: own entries only, Undefined if none
RECURSIVE Entry(_, _)
Entry(v, keys) ==
    IF keys = <<>> THEN v
    ELSE IF v.t = "object" /\ Head(keys) \in DOMAIN v.f
         THEN Entry(v.f[Head(keys)], Tail(keys))
    ELSE Undefined

CatalogEntry(language, key) ==
    IF language \in DOMAIN translations.f
    THEN Entry(translations.f[language], Split(key, "."))
    ELSE Undefined

Switched == last.op \in {"switchLanguage", "handleLanguageChange"}

\* C1: after switchLanguage(c) with a registered code c, the active code is c.
C1_SwitchYieldsCode ==
    (Switched /\ last.code \in LocaleCodes) => currentLanguage = last.code

C1_Witness ==
    /\ last.op = "switchLanguage"
    /\ last.language = "en"
    /\ last.code = "tr"
    /\ currentLanguage = "tr"

\* C2: switchLanguage(u) with a string u that is not a registered code leaves the
\* active code as it was and schedules no write to storage.
C2_UnregisteredIsNoOp ==
    (Switched /\ last.code \notin LocaleCodes) =>
        (currentLanguage = last.language /\ ~effectPending)

\* C3: the active code is always one of the registry's codes.
C3_ActiveCodeRegistered == currentLanguage \in LocaleCodes

\* C4: when the key path names a string of the active locale's catalog, t(key)
\* without params returns exactly that string.
C4_ActiveCatalogString ==
    (/\ last.op = "t"
     /\ last.language \in LocaleCodes
     /\ ~HasParams(last.params)
     /\ CatalogEntry(last.language, last.key).t = "string")
        => last.result = CatalogEntry(last.language, last.key)

C4_Witness ==
    /\ last.op = "t"
    /\ last.language = "tr"
    /\ last.key = <<"nav", ".", "home">>
    /\ ~HasParams(last.params)
    /\ last.result = Text("Ana Sayfa")

\* C5: when the key path names an entry of the English catalog and none of the
\* active locale's catalog, t(key) returns the English entry.
C5_EnglishFallback ==
    (/\ last.op = "t"
     /\ last.language \in LocaleCodes
     /\ ~HasParams(last.params)
     /\ CatalogEntry("en", last.key) # Undefined
     /\ CatalogEntry(last.language, last.key) = Undefined)
        => last.result = CatalogEntry("en", last.key)

C5_Witness ==
    /\ last.op = "t"
    /\ last.language = "it"
    /\ last.key = <<"home", ".", "services", ".", "security", ".", "title">>
    /\ last.result = Text("Security & Compliance")

\* C6: when the key path names no entry of the active catalog and none of the
\* English catalog, t(key) returns the key path itself.
C6_MissingKeyReturnsKey ==
    (/\ last.op = "t"
     /\ CatalogEntry(last.language, last.key) = Undefined
     /\ CatalogEntry("en", last.key) = Undefined)
        => last.result = Str(last.key)

\* C7: t always returns a value: it does not throw, and what it returns is neither
\* undefined nor the empty string.
C7_TotalNeverEmpty ==
    last.op = "t" =>
        (/\ last.result # TypeError
         /\ last.result # Undefined
         /\ last.result # Str(<<>>))

\* the text the claim C8 describes: a token {{name}} becomes params[name] when name
\* is a key of params, and stays otherwise
RECURSIVE ReplaceOwn(_, _)
ReplaceOwn(s, params) ==
    IF s = <<>> THEN <<>>
    ELSE LET names == {n \in DOMAIN params.f : Head(s) = Placeholder(n)}
         IN  (IF names = {} THEN <<Head(s)>>
              ELSE ToJSString(params.f[CHOOSE n \in names : TRUE]))
             \o ReplaceOwn(Tail(s), params)

\* C8: when the resolved value is a string and params is not empty, every token
\* {{name}} whose name is a key of params is replaced by params[name], and every
\* other token stays.
C8_InterpolatesOwnParams ==
    (/\ last.op = "t"
     /\ HasParams(last.params)
     /\ Resolve(last.language, last.key).t = "string"
     /\ Truthy(Resolve(last.language, last.key)))
        => last.result = Str(ReplaceOwn(Resolve(last.language, last.key).s, last.params))

HasToken(s) == \E i \in DOMAIN s : \E n \in WordNames : s[i] = Placeholder(n)

\* C9: with empty params t does not interpolate: the resolved string is returned
\* with its tokens intact.
C9_EmptyParamsKeepTokens ==
    (/\ last.op = "t"
     /\ ~HasParams(last.params)
     /\ Resolve(last.language, last.key).t = "string"
     /\ Truthy(Resolve(last.language, last.key)))
        => last.result = Resolve(last.language, last.key)

C9_Witness ==
    /\ last.op = "t"
    /\ ~HasParams(last.params)
    /\ last.key = <<"footer", ".", "copyright">>
    /\ last.result.t = "string"
    /\ HasToken(last.result.s)

\* C10: a key path that resolves to a value that is not a string is answered with
\* that value, also when params is not empty.
C10_NonStringUnmodified ==
    (/\ last.op = "t"
     /\ HasParams(last.params)
     /\ Truthy(Resolve(last.language, last.key))
     /\ Resolve(last.language, last.key).t # "string")
        => last.result = Resolve(last.language, last.key)

C10_Witness ==
    /\ last.op = "t"
    /\ HasParams(last.params)
    /\ last.key = <<"nav">>
    /\ last.language = "tr"
    /\ last.result = translations.f["tr"].f["nav"]

\* C11: when the storage read at initialization holds a registered code, that code is
\* the initial active code, whatever the browser reports.
C11_SavedCodeAdopted ==
    (last.op = "init" /\ last.code \in LocaleCodes) => currentLanguage = last.code

C11_Witness ==
    /\ last.op = "init"
    /\ last.code = "ar"
    /\ navigatorLanguage = <<"tr", "-", "TR">>
    /\ currentLanguage = "ar"

\* the text of navigator.language before its first "-"
PrimarySubtag == IF navigatorLanguage = <<>> THEN "" ELSE Head(navigatorLanguage)

\* C12: when nothing is persisted, or a code that is not in the registry, the initial
\* active code is the browser language's primary subtag if that is a registered code
\* and "en" otherwise.
C12_BrowserOrDefault ==
    (last.op = "init" /\ last.code \notin LocaleCodes) =>
        currentLanguage = (IF PrimarySubtag \in LocaleCodes THEN PrimarySubtag ELSE "en")

\* C13: a reload right after the side effects of a switch to a registered code have
\* run starts with that code, whatever the browser reports.
C13_RoundTrip ==
    [][(/\ last.op = "effect"
        /\ currentLanguage \in LocaleCodes
        /\ last'.op = "init")
          => currentLanguage' = currentLanguage]_vars

C13_Witness ==
    /\ last.op = "init"
    /\ last.language = "it"
    /\ last.code = "it"
    /\ navigatorLanguage = <<"tr", "-", "TR">>
    /\ currentLanguage = "it"

\* C14: once the effect has run after a change of the active code (the initial one
\* included), the storage entry and the document language both hold the active code.
C14_EffectPersistsCode ==
    ~effectPending => (storage = currentLanguage /\ docLang = currentLanguage)

C14_Witness ==
    /\ last.op = "effect"
    /\ last.code = "en"
    /\ currentLanguage = "tr"
    /\ storage = "tr"
    /\ docLang = "tr"

\* C15: once the effect has run, the document direction is "rtl" exactly when the
\* active code is "ar", and "ltr" for every other code.
C15_DirectionFollowsCode ==
    ~effectPending => docDir = (IF currentLanguage = "ar" THEN "rtl" ELSE "ltr")

\* the effect ran after a switch away from "ar"
C15_Witness ==
    /\ last.op = "effect"
    /\ last.code = "ar"
    /\ currentLanguage = "tr"
    /\ docDir = "ltr"

\* C16: switchLanguage(c) called again with the registered code c that is already
\* active changes neither the active code nor the storage entry nor the document
\* attributes, and schedules no further side effect.
C16_SwitchIdempotent ==
    [][(/\ last'.op \in {"switchLanguage", "handleLanguageChange"}
        /\ last'.code \in LocaleCodes
        /\ last'.code = currentLanguage)
          => (/\ currentLanguage' = currentLanguage
              /\ storage' = storage
              /\ docLang' = docLang
              /\ docDir' = docDir
              /\ effectPending' = effectPending)]_vars

\* a second switchLanguage("ar") right after the first one and its effect
C16_Witness ==
    /\ last.op = "switchLanguage"
    /\ last.code = "ar"
    /\ last.language = "ar"
    /\ currentLanguage = "ar"
    /\ storage = "ar"
    /\ docDir = "rtl"
    /\ ~effectPending

\* C17: useTranslation outside a LanguageProvider raises the configuration error;
\* inside one it returns the bundle of the active code, switchLanguage, the registry,
\* the active locale's record and t.
C17_ContextAccess ==
    last.op = "useTranslation" =>
        IF last.code = "outside" THEN last.result = ConfigError
        ELSE /\ last.result.t = "object"
             /\ DOMAIN last.result.f = {"currentLanguage", "switchLanguage",
                    "supportedLanguages", "currentLanguageInfo", "t"}
             /\ last.result.f["currentLanguage"] = Text(currentLanguage)
             /\ last.result.f["switchLanguage"].t = "function"
             /\ last.result.f["t"].t = "function"
             /\ last.result.f["supportedLanguages"] = SUPPORTED_LANGUAGES
             /\ currentLanguage \in LocaleCodes =>
                    last.result.f["currentLanguageInfo"] =
                        SUPPORTED_LANGUAGES.f[currentLanguage]

C17_Witness ==
    /\ last.op = "useTranslation"
    /\ last.code = "outside"
    /\ last.result = ConfigError

\* C18: a call of t changes nothing: the active code, the storage entry, the document
\* attributes, the pending effect and the dropdown are as before, also when the call
\* fell back to English or to the key.
C18_TranslateHasNoEffect ==
    [][last'.op = "t" =>
          (/\ currentLanguage' = currentLanguage
           /\ storage' = storage
           /\ docLang' = docLang
           /\ docDir' = docDir
           /\ effectPending' = effectPending
           /\ isOpen' = isOpen
           /\ last'.result = t(currentLanguage', last'.key, last'.params))]_vars

\* a call under "it" that fell back to English, with "it" still active
C18_Witness ==
    /\ last.op = "t"
    /\ last.language = "it"
    /\ last.key = <<"home", ".", "services", ".", "security">>
    /\ last.result = translations.f["en"].f["home"].f["services"].f["security"]
    /\ currentLanguage = "it"
    /\ storage = "it"
    /\ docLang = "it"

\* C19: the active code changes only in a step of switchLanguage (or when the page is
\* loaded again and initialized anew).
C19_OnlySwitchMutates ==
    [][currentLanguage' # currentLanguage =>
          last'.op \in {"switchLanguage", "handleLanguageChange", "init"}]_vars

\* the effect ran after a switch from "tr" to "ar" and left the active code alone
C19_Witness ==
    /\ last.op = "effect"
    /\ last.code = "tr"
    /\ last.language = "ar"
    /\ currentLanguage = "ar"
    /\ ~isOpen

\* C20: no consumer observes the new active code while the storage entry or the
\* document attributes still hold the previous one: whenever t runs after the first
\* side effects, storage and document agree with the active code.
C20_NoStaleObservation ==
    (last.op = "t" /\ docLang # Unset) =>
        (/\ storage = currentLanguage
         /\ docLang = currentLanguage
         /\ docDir = (IF currentLanguage = "ar" THEN "rtl" ELSE "ltr"))

\* C21: no operation of the locale state manager raises: the initializer absorbs
\* every stored value and every browser language, an absent one included, and
\* switchLanguage absorbs every argument.
C21_NoOperationRaises ==
    last.op \in {"init", "switchLanguage"} => last.result # TypeError

\* a leaf string of the catalog is reached before the key path is exhausted
StopsAtLeaf(language, key) ==
    LET keys == Split(key, ".")
    IN  /\ language \in DOMAIN translations.f
        /\ \E i \in 1..(Len(keys) - 1) :
              Entry(translations.f[language], SubSeq(keys, 1, i)).t = "string"

\* C22: a key path that runs on past a leaf string (as 'nav.home.length' does)
\* resolves to nothing in that catalog; when that is so in the active and in the
\* English catalog, t returns the key path.
C22_PastLeafReturnsKey ==
    (/\ last.op = "t"
     /\ StopsAtLeaf(last.language, last.key)
     /\ StopsAtLeaf("en", last.key))
    => last.result = Str(last.key)

\* C23: whatever value other than undefined the traversal of the active catalog
\* yields (an empty string, zero and false included) is the candidate result; the
\* English catalog is consulted only when the traversal yields undefined.
C23_ConcreteValueIsCandidate ==
    (/\ last.op = "t"
     /\ ~HasParams(last.params)
     /\ Walk(Get(translations, last.language), Split(last.key, ".")) # Undefined)
    => last.result = Walk(Get(translations, last.language), Split(last.key, "."))

\* C24: the storage is read only by the initializer: a change the environment makes
\* to the entry leaves the active code and the scheduled effect as they are, a
\* switchLanguage leaves the previous code or its argument, and t answers from the
\* active code alone.
C24_StorageReadOnlyAtInit ==
    [][/\ last'.op = "storageChange" =>
            /\ currentLanguage' = currentLanguage
            /\ effectPending' = effectPending
       /\ last'.op = "switchLanguage" =>
            currentLanguage' \in {currentLanguage, last'.code}
       /\ last'.op = "t" =>
            last'.result = t(currentLanguage, last'.key, last'.params)]_vars

\* after the environment replaced the stored "en" by "tr", switchLanguage('xx') has
\* left the active code "en"
C24_Witness ==
    /\ last.op = "switchLanguage"
    /\ last.code = "xx"
    /\ storage = "tr"
    /\ docLang = "en"
    /\ currentLanguage = "en"
    /\ ~effectPending

\* a step writes the storage entry or a document attribute
Writes ==
    \/ storage' # storage
    \/ docLang' # docLang /\ docLang' # Unset
    \/ docDir' # docDir /\ docDir' # Unset

C26_UIKeysResolve ==
    /\ UIKeys \subseteq EnglishLeafPaths
    /\ \A c \in UICalls : Split(c.key, ".") \in UIKeys
    /\ \A c \in UICalls : CatalogEntry("en", c.key).t = "string"
    /\ \A p \in Paths(translations.f["en"]) :
          Entry(translations.f["en"], p).t = "string" => p \in EnglishLeafPaths
    /\ (last.op = "t" /\ Split(last.key, ".") \in UIKeys) =>
          /\ last.result.t = "string"
          /\ last.result # Str(last.key)

\* Home has asked for 'home.services.title' under Italian and got the Italian text
C26_Witness ==
    /\ last.op = "t"
    /\ last.language = "it"
    /\ last.key = Join(<<"home", "services", "title">>, ".")
    /\ last.result = Text("Cosa Faccio")

\* C30: the dropdown offers exactly the registry's codes, each record's code is its
\* registry key and no code occurs twice, so a choice in the dropdown carries a
\* registered code; the choice makes that code the active one and leaves the
\* dropdown closed.
C30_DropdownOffersRegistry ==
    /\ {Get(language, "code").s[1] : language \in languages} = LocaleCodes
    /\ \A k \in LocaleCodes : Get(Get(SUPPORTED_LANGUAGES, k), "code") = Text(k)
    /\ Cardinality(languages) = Cardinality(LocaleCodes)
    /\ last.op = "handleLanguageChange" =>
          /\ last.code \in LocaleCodes
          /\ currentLanguage = last.code
          /\ ~isOpen

\* the Arabic entry has been chosen while Turkish was active
C30_Witness ==
    /\ last.op = "handleLanguageChange"
    /\ last.code = "ar"
    /\ last.language = "tr"
    /\ currentLanguage = "ar"
    /\ effectPending
    /\ ~isOpen

\* the page has settled: the effect has run and no load is in flight
Settled == ~blogEffectPending /\ pending = {}

\* C27: whatever the slug and however the import, the fetch and the reading of the
\* text end, the load finishes with loading = FALSE; a rejection at any step puts the
\* placeholder into content, the text that arrived is put there otherwise, and on
\* the slug the page was mounted with the settled content is one of the two.
C27_LoadFinishes ==
    /\ [][(last'.op \in {"import", "fetch", "text"} /\ last'.result = Rejection) =>
             (content' = NotFoundContent /\ ~loading')]_vars
    /\ [][(last'.op = "text" /\ last'.result # Rejection) =>
             (content' = FetchedText(last'.code) /\ ~loading')]_vars
    /\ [](Settled => ~loading)
    /\ []((Settled /\ navigations = 0 /\ slug \in blogPosts) =>
             content \in {FetchedText(slug), NotFoundContent})
    /\ <>(~loading)

\* the fetch for a post of the catalog was rejected: the placeholder is shown
C27_Witness ==
    /\ last.op = "fetch"
    /\ last.result = Rejection
    /\ navigations = 0
    /\ slug = "database-design-patterns"
    /\ post = slug
    /\ content = NotFoundContent
    /\ ~loading
    /\ Settled

\* C28: once every load has settled, the content is that of the current slug, also
\* when the slug changed while a load was in flight.
C28_LatestSlugWins ==
    (Settled /\ slug \in blogPosts) =>
        content \in {FetchedText(slug), NotFoundContent}

\* C29: when loading is FALSE and the slug names no post of the catalog, post is
\* Null and the 'Post Not Found' view is shown.
C29_MissingSlugShowsNotFound ==
    (~blogEffectPending /\ ~loading /\ slug \notin blogPosts) =>
        (post = Null /\ View = "Post Not Found")

====
